---- MODULE Spec2Model ----
(***************************************************************************)
(* Model of the Sensirion SHTC1 driver (src/shtc1.c, src/shtc1.h).         *)
(*                                                                         *)
(* The driver holds no state of its own.  The state of the model is the    *)
(* environment the driver talks to (what the I2C transport will report and *)
(* deliver), the caller's two output locations, and the record of the last *)
(* driver call: its name, its return value and the bus and delay calls it  *)
(* made, in order.  Every driver function is one action.                   *)
(***************************************************************************)
EXTENDS Integers, Sequences, FiniteSets, TLC

VARIABLES
    bus,      \* transport: [ws, rs, data] = status of the next write, status
              \* of the next read, bytes the next read delivers
    sent,     \* the frame the sensor put on the wire (checksums valid)
    call,     \* name of the last driver function called ("none" at start)
    trace,    \* the transport and delay calls of the last call, in order
    ret,      \* the local 'ret' of the last call (its return value, for
              \* the functions that return a status code)
    present,  \* the boolean shtc1_probe returned (FALSE for other calls)
    stored,   \* whether the last call assigned *temp and *rh
    temp,     \* the caller's location *temp
    rh,       \* the caller's location *rh
    obs       \* outcomes seen on the present bus condition, per protocol

vars == <<bus, sent, call, trace, ret, present, stored, temp, rh, obs>>

----------------------------------------------------------------------------
(* Bounds of the model.                                                    *)

\* How many of the sample payloads below the sampled specification uses.
NumSamples == 3

\* How many frames the sensor may send in the specification of the checksum.
NumFrames == 3

----------------------------------------------------------------------------
(* Constants of src/shtc1.c.                                               *)

CMD_MEASURE_LPM_CS == <<100, 88>>      \* { 0x64, 0x58 }
CMD_MEASURE_LPM    == <<96, 156>>      \* { 0x60, 0x9c }
CMD_MEASURE_HPM_CS == <<124, 162>>     \* { 0x7c, 0xa2 }
CMD_MEASURE_HPM    == <<120, 102>>     \* { 0x78, 0x66 }
CMD_SOFT_RESET     == <<128, 93>>      \* { 0x80, 0x5d }
CMD_READ_ID_REG    == <<239, 200>>     \* { 0xef, 0xc8 }
COMMAND_SIZE       == Len(CMD_MEASURE_LPM)
SHTC1_ADDRESS      == 112              \* 0x70
ID_REG_CONTENT     == 7                \* 0x07
ID_REG_MASK        == 31               \* 0x1f
CRC_POLYNOMIAL     == 49               \* 0x31
CRC_INIT           == 255              \* 0xff

\* enum status_code: STATUS_OK is 0, so 'if (ret)' is 'ret # STATUS_OK'.
STATUS_OK           == "STATUS_OK"
STATUS_ERR_BAD_DATA == "STATUS_ERR_BAD_DATA"
\* The statuses the transport reports.
TransportStatus == {STATUS_OK, "STATUS_ERR_TIMEOUT", "STATUS_ERR_BAD_ADDRESS"}

----------------------------------------------------------------------------
(* C integer operators on non-negative operands.                           *)

RECURSIVE BitXor(_, _)
BitXor(a, b) ==
    IF a = 0 THEN b
    ELSE IF b = 0 THEN a
    ELSE (((a % 2) + (b % 2)) % 2) + 2 * BitXor(a \div 2, b \div 2)

RECURSIVE BitAnd(_, _)
BitAnd(a, b) ==
    IF a = 0 \/ b = 0 THEN 0
    ELSE ((a % 2) * (b % 2)) + 2 * BitAnd(a \div 2, b \div 2)

RECURSIVE BitOr(_, _)
BitOr(a, b) ==
    IF a = 0 THEN b
    ELSE IF b = 0 THEN a
    ELSE (IF (a % 2) + (b % 2) > 0 THEN 1 ELSE 0) + 2 * BitOr(a \div 2, b \div 2)

\* Assignment to a uint8_t keeps the low 8 bits.
U8(x) == x % 256

\* a * b in a 16-bit int (two's complement wrap): the arithmetic of a
\* platform whose int is too narrow for the products.
IntMul16(a, b) == (((a * b) + 32768) % 65536) - 32768

\* a * b in a 32-bit int, 0 <= a < 2^20, 0 <= b < 2^16, computed in two
\* limbs so that the wrap of a product beyond INT_MAX is what the model sees.
IntMul(a, b) ==
    LET hi == a * (b \div 256)
        lo == a * (b % 256)
        h  == (hi + (lo \div 256)) % 16777216
        l  == lo % 256
    IN  IF h >= 8388608 THEN (h - 16777216) * 256 + l ELSE h * 256 + l

----------------------------------------------------------------------------
(* shtc1_check_crc                                                         *)

\* One pass of the inner loop: the register after one shift.
CrcShift(crc) ==
    IF BitAnd(crc, 128) # 0
    THEN U8(BitXor(crc * 2, CRC_POLYNOMIAL))
    ELSE U8(crc * 2)

RECURSIVE CrcBits(_, _)
CrcBits(crc, bit) ==
    IF bit > 0 THEN CrcBits(CrcShift(crc), bit - 1) ELSE crc

\* The register after the eight passes of the inner loop, for each value
\* it can hold when the loop starts.
CrcByte == [crc \in 0 .. 255 |-> CrcBits(crc, 8)]

RECURSIVE CrcBytes(_, _, _, _)
CrcBytes(crc, data, current_byte, data_length) ==
    IF current_byte < data_length
    THEN CrcBytes(CrcByte[BitXor(crc, data[current_byte + 1])],
                  data, current_byte + 1, data_length)
    ELSE crc

shtc1_check_crc(data, data_length, checksum) ==
    CrcBytes(CRC_INIT, data, 0, data_length) = checksum

----------------------------------------------------------------------------
(* The transport and the delay primitive, as the driver calls them.  Each  *)
(* call is one entry of the trace.                                         *)

\* i2c_master_write_packet_wait (stop = TRUE) and
\* i2c_master_write_packet_wait_no_stop (stop = FALSE) of a packet holding
\* 'command', with data_length COMMAND_SIZE.
WriteCall(command, stop, status) ==
    [kind |-> "write", addr |-> SHTC1_ADDRESS, len |-> COMMAND_SIZE,
     bytes |-> command, stop |-> stop, status |-> status, ms |-> 0]

\* i2c_master_read_packet_wait of 'len' bytes; 'bytes' is what it put in the
\* buffer (nothing the driver looks at when it failed).
ReadCall(len, status, bytes) ==
    [kind |-> "read", addr |-> SHTC1_ADDRESS, len |-> len,
     bytes |-> IF status = STATUS_OK THEN bytes ELSE <<>>,
     stop |-> TRUE, status |-> status, ms |-> 0]

\* delay_ms(ms)
DelayCall(ms) ==
    [kind |-> "delay", addr |-> 0, len |-> 0, bytes |-> <<>>,
     stop |-> FALSE, status |-> STATUS_OK, ms |-> ms]

\* What a call leaves behind: its return value, what it stored through the
\* caller's pointers, and the calls it made.
Result(r, p, st, t, h, tr) ==
    [ret |-> r, present |-> p, stored |-> st, temp |-> t, rh |-> h,
     trace |-> tr]

----------------------------------------------------------------------------
(* The driver functions, as functions of the transport's behaviour b.      *)

\* shtc1_read_async_result with the CRC checks left out.
read_async_result_nocrc(b) ==
    LET data == SubSeq(b.data, 1, 6)
        rd   == ReadCall(6, b.rs, data)
        t    == BitOr(BitAnd(data[2], 255), data[1] * 256)
        h    == BitOr(BitAnd(data[5], 255), data[4] * 256)
    IN  IF b.rs # STATUS_OK
        THEN Result(b.rs, FALSE, FALSE, 0, 0, <<rd>>)
        ELSE Result(STATUS_OK, FALSE, TRUE,
                    (IntMul(21875, t) \div 8192) - 45000,
                    IntMul(12500, h) \div 8192, <<rd>>)

\* shtc1_read_async_result validating the temperature half only.
read_async_result_tonly(b) ==
    LET data == SubSeq(b.data, 1, 6)
        rd   == ReadCall(6, b.rs, data)
        t    == BitOr(BitAnd(data[2], 255), data[1] * 256)
        h    == BitOr(BitAnd(data[5], 255), data[4] * 256)
    IN  IF b.rs # STATUS_OK
        THEN Result(b.rs, FALSE, FALSE, 0, 0, <<rd>>)
        ELSE IF ~shtc1_check_crc(data, 2, data[3])
        THEN Result(STATUS_ERR_BAD_DATA, FALSE, FALSE, 0, 0, <<rd>>)
        ELSE Result(STATUS_OK, FALSE, TRUE,
                    (IntMul(21875, t) \div 8192) - 45000,
                    IntMul(12500, h) \div 8192, <<rd>>)

\* shtc1_read_async_result rejecting a frame only when both checks fail.
read_async_result_and(b) ==
    LET data == SubSeq(b.data, 1, 6)
        rd   == ReadCall(6, b.rs, data)
        t    == BitOr(BitAnd(data[2], 255), data[1] * 256)
        h    == BitOr(BitAnd(data[5], 255), data[4] * 256)
    IN  IF b.rs # STATUS_OK
        THEN Result(b.rs, FALSE, FALSE, 0, 0, <<rd>>)
        ELSE IF /\ ~shtc1_check_crc(data, 2, data[3])
                /\ ~shtc1_check_crc(SubSeq(data, 4, 5), 2, data[6])
        THEN Result(STATUS_ERR_BAD_DATA, FALSE, FALSE, 0, 0, <<rd>>)
        ELSE Result(STATUS_OK, FALSE, TRUE,
                    (IntMul(21875, t) \div 8192) - 45000,
                    IntMul(12500, h) \div 8192, <<rd>>)

read_async_result(b) ==
    LET data == SubSeq(b.data, 1, 6)
        rd   == ReadCall(6, b.rs, data)
        t    == BitOr(BitAnd(data[2], 255), data[1] * 256)
        h    == BitOr(BitAnd(data[5], 255), data[4] * 256)
    IN  IF b.rs # STATUS_OK
        THEN Result(b.rs, FALSE, FALSE, 0, 0, <<rd>>)
        ELSE IF \/ ~shtc1_check_crc(data, 2, data[3])
                \/ ~shtc1_check_crc(SubSeq(data, 4, 5), 2, data[6])
        THEN Result(STATUS_ERR_BAD_DATA, FALSE, FALSE, 0, 0, <<rd>>)
        ELSE Result(STATUS_OK, FALSE, TRUE,
                    (IntMul(21875, t) \div 8192) - 45000,
                    IntMul(12500, h) \div 8192, <<rd>>)

\* shtc1_read_sync going on to the read whatever the write returned.
shtc1_read_sync_nocheck(command, b) ==
    LET wr == WriteCall(command, FALSE, b.ws)
        r  == read_async_result(b)
    IN  [r EXCEPT !.trace = <<wr, DelayCall(50)>> \o r.trace]

\* shtc1_read_sync decoding the frame itself, without the CRC checks.
shtc1_read_sync_owndecode(command, b) ==
    LET wr == WriteCall(command, FALSE, b.ws)
        r  == read_async_result_nocrc(b)
    IN  IF b.ws # STATUS_OK
        THEN Result(b.ws, FALSE, FALSE, 0, 0, <<wr, DelayCall(50)>>)
        ELSE [r EXCEPT !.trace = <<wr, DelayCall(50)>> \o r.trace]

\* shtc1_read_sync reading before it waits.
shtc1_read_sync_nowait(command, b) ==
    LET wr == WriteCall(command, FALSE, b.ws)
        r  == read_async_result(b)
    IN  IF b.ws # STATUS_OK
        THEN Result(b.ws, FALSE, FALSE, 0, 0, <<wr, DelayCall(50)>>)
        ELSE [r EXCEPT !.trace = <<wr>> \o r.trace \o <<DelayCall(50)>>]

shtc1_read_sync(command, b) ==
    LET wr == WriteCall(command, FALSE, b.ws)
        r  == read_async_result(b)
    IN  IF b.ws # STATUS_OK
        THEN Result(b.ws, FALSE, FALSE, 0, 0, <<wr, DelayCall(50)>>)
        ELSE [r EXCEPT !.trace = <<wr, DelayCall(50)>> \o r.trace]

\* shtc1_read_lpm_async and shtc1_read_hpm_async: the write alone.
read_async(command, b) ==
    Result(b.ws, FALSE, FALSE, 0, 0, <<WriteCall(command, FALSE, b.ws)>>)

\* shtc1_reset sending its command without the stop condition.
reset_nostop(b) ==
    Result(b.ws, FALSE, FALSE, 0, 0,
           <<WriteCall(CMD_SOFT_RESET, FALSE, b.ws)>>)

reset(b) ==
    Result(b.ws, FALSE, FALSE, 0, 0,
           <<WriteCall(CMD_SOFT_RESET, TRUE, b.ws)>>)

\* shtc1_probe giving up when the write fails.
probe_failfast(b) ==
    LET data == SubSeq(b.data, 1, 3)
        wr   == WriteCall(CMD_READ_ID_REG, FALSE, b.ws)
        rd   == ReadCall(3, b.rs, data)
    IN  IF b.ws # STATUS_OK
        THEN Result(b.ws, FALSE, FALSE, 0, 0, <<wr>>)
        ELSE IF b.rs # STATUS_OK
        THEN Result(b.rs, FALSE, FALSE, 0, 0, <<wr, DelayCall(50), rd>>)
        ELSE IF ~shtc1_check_crc(data, 2, data[3])
        THEN Result(b.rs, FALSE, FALSE, 0, 0, <<wr, DelayCall(50), rd>>)
        ELSE Result(b.rs, BitAnd(data[2], ID_REG_MASK) = ID_REG_CONTENT,
                    FALSE, 0, 0, <<wr, DelayCall(50), rd>>)

\* shtc1_probe without the CRC check of the identification bytes.
probe_nocrc(b) ==
    LET data == SubSeq(b.data, 1, 3)
        wr   == WriteCall(CMD_READ_ID_REG, FALSE, b.ws)
        rd   == ReadCall(3, b.rs, data)
    IN  IF b.rs # STATUS_OK
        THEN Result(b.rs, FALSE, FALSE, 0, 0, <<wr, DelayCall(50), rd>>)
        ELSE Result(b.rs, BitAnd(data[2], ID_REG_MASK) = ID_REG_CONTENT,
                    FALSE, 0, 0, <<wr, DelayCall(50), rd>>)

probe(b) ==
    LET data == SubSeq(b.data, 1, 3)
        wr   == WriteCall(CMD_READ_ID_REG, FALSE, b.ws)
        rd   == ReadCall(3, b.rs, data)
    IN  IF b.rs # STATUS_OK
        THEN Result(b.rs, FALSE, FALSE, 0, 0, <<wr, DelayCall(50), rd>>)
        ELSE IF ~shtc1_check_crc(data, 2, data[3])
        THEN Result(b.rs, FALSE, FALSE, 0, 0, <<wr, DelayCall(50), rd>>)
        ELSE Result(b.rs, BitAnd(data[2], ID_REG_MASK) = ID_REG_CONTENT,
                    FALSE, 0, 0, <<wr, DelayCall(50), rd>>)

----------------------------------------------------------------------------
(* The sensor's side of the wire: the CRC-8 of the data sheet, written as  *)
(* the division it is rather than as the driver's loop.  The register is   *)
(* the set of its bits that are 1; the message is fed in bit by bit, most  *)
(* significant first; the generator is x^8 + x^5 + x^4 + 1 (0x31), the     *)
(* register starts at all ones (0xFF) and is not inverted at the end.      *)

GeneratorBits == {0, 4, 5}

MessageBit(bytes, i) ==
    (bytes[((i - 1) \div 8) + 1] \div (2 ^ (7 - ((i - 1) % 8)))) % 2

RECURSIVE Divide(_, _, _)
Divide(reg, bytes, i) ==
    IF i > 8 * Len(bytes) THEN reg
    ELSE LET shifted  == {k + 1 : k \in reg \ {7}}
             feedback == (7 \in reg) # (MessageBit(bytes, i) = 1)
         IN  Divide(IF feedback
                    THEN (shifted \ GeneratorBits) \cup (GeneratorBits \ shifted)
                    ELSE shifted,
                    bytes, i + 1)

RECURSIVE BitsValue(_)
BitsValue(reg) ==
    IF reg = {} THEN 0
    ELSE LET k == CHOOSE x \in reg : TRUE
         IN  (2 ^ k) + BitsValue(reg \ {k})

Crc8Ref(bytes) == BitsValue(Divide(0 .. 7, bytes, 1))

\* A 16-bit code as the sensor sends it: high byte, low byte, checksum.
Word(S) == <<S \div 256, S % 256>>
SensorHalf(p) == <<p[1], p[2], Crc8Ref(p)>>
SensorFrame(pt, prh) == SensorHalf(pt) \o SensorHalf(prh)

\* The payloads the sampled specifications draw from: 0x6850, the
\* identification word 0x0807, 0x8000, 0xBEEF, 0xFFFF, 0x0000.
SamplePayloads ==
    << <<104, 80>>, <<8, 7>>, <<128, 0>>, <<190, 239>>, <<255, 255>>,
       <<0, 0>> >>

Samples ==
    {SamplePayloads[i] : i \in 1 .. (IF NumSamples < Len(SamplePayloads)
                                     THEN NumSamples ELSE Len(SamplePayloads))}

\* What a read may deliver for one half of a frame: a sample payload with
\* its checksum, or with a checksum that is off by one.
SampleHalves ==
    UNION {{<<p[1], p[2], c>> : c \in {Crc8Ref(p), (Crc8Ref(p) + 1) % 256}}
           : p \in Samples}

NoObs == [hpm_sync |-> {}, lpm_sync |-> {}, async |-> {}]

\* What a caller can tell of a call: its status and what it stored.
Outcome(r) ==
    <<r.ret, r.stored, IF r.stored THEN <<r.temp, r.rh>> ELSE <<>> >>

----------------------------------------------------------------------------
(* The environment.                                                        *)

\* The caller has taken the result of the last call; what it stored in *temp
\* and *rh stays there.
Forget ==
    /\ call' = "none"
    /\ trace' = <<>>
    /\ ret' = STATUS_OK
    /\ present' = FALSE
    /\ stored' = FALSE
    /\ obs' = NoObs
    /\ UNCHANGED <<sent, temp, rh>>

\* The bus changes how it will answer the next write.
TransportWriteStatus(s) ==
    /\ s # bus.ws
    /\ bus' = [bus EXCEPT !.ws = s]
    /\ Forget

\* The bus changes how it will answer the next read.
TransportReadStatus(s) ==
    /\ s # bus.rs
    /\ bus' = [bus EXCEPT !.rs = s]
    /\ Forget

\* The next read will deliver other bytes in half k (0: bytes 1..3, 1: bytes
\* 4..6) of its buffer.
TransportReadData(k, half) ==
    /\ SubSeq(bus.data, 3 * k + 1, 3 * k + 3) # half
    /\ bus' = [bus EXCEPT !.data =
                  IF k = 0 THEN half \o SubSeq(bus.data, 4, 6)
                           ELSE SubSeq(bus.data, 1, 3) \o half]
    /\ Forget

\* One byte of the frame the sensor sent arrives as another value.
Corrupt(pos, v) ==
    /\ bus.data = sent
    /\ v # sent[pos]
    /\ bus' = [bus EXCEPT !.data[pos] = v]
    /\ Forget

----------------------------------------------------------------------------
(* The driver's functions as actions: a call runs to its return.           *)

Return(name, r) ==
    /\ call' = name
    /\ trace' = r.trace
    /\ ret' = r.ret
    /\ present' = r.present
    /\ stored' = r.stored
    /\ temp' = IF r.stored THEN r.temp ELSE temp
    /\ rh' = IF r.stored THEN r.rh ELSE rh
    /\ UNCHANGED <<bus, sent>>

shtc1_read_async_result ==
    LET r == read_async_result(bus)
    IN  /\ Return("shtc1_read_async_result", r)
        /\ obs' = IF /\ call \in {"shtc1_read_hpm_async", "shtc1_read_lpm_async"}
                     /\ ret = STATUS_OK
                  THEN [obs EXCEPT !.async = {Outcome(r)}]
                  ELSE obs

shtc1_read_lpm_sync ==
    LET r == shtc1_read_sync(CMD_MEASURE_LPM_CS, bus)
    IN  /\ Return("shtc1_read_lpm_sync", r)
        /\ obs' = IF bus.ws = STATUS_OK
                  THEN [obs EXCEPT !.lpm_sync = {Outcome(r)}]
                  ELSE obs

shtc1_read_hpm_sync ==
    LET r == shtc1_read_sync(CMD_MEASURE_HPM_CS, bus)
    IN  /\ Return("shtc1_read_hpm_sync", r)
        /\ obs' = IF bus.ws = STATUS_OK
                  THEN [obs EXCEPT !.hpm_sync = {Outcome(r)}]
                  ELSE obs

shtc1_read_lpm_async ==
    /\ Return("shtc1_read_lpm_async", read_async(CMD_MEASURE_LPM, bus))
    /\ UNCHANGED obs

shtc1_read_hpm_async ==
    /\ Return("shtc1_read_hpm_async", read_async(CMD_MEASURE_HPM, bus))
    /\ UNCHANGED obs

shtc1_reset ==
    /\ Return("shtc1_reset", reset(bus))
    /\ UNCHANGED obs

shtc1_probe ==
    /\ Return("shtc1_probe", probe(bus))
    /\ UNCHANGED obs

----------------------------------------------------------------------------
(* Specifications.                                                         *)

NoCall ==
    /\ call = "none"
    /\ trace = <<>>
    /\ ret = STATUS_OK
    /\ present = FALSE
    /\ stored = FALSE
    /\ temp = 0
    /\ rh = 0
    /\ obs = NoObs

\* Any sequence of driver calls, on a bus whose answers change between them.
Init ==
    /\ sent = SensorFrame(SamplePayloads[1], SamplePayloads[1])
    /\ bus = [ws |-> STATUS_OK, rs |-> STATUS_OK, data |-> sent]
    /\ NoCall

Next ==
    \/ \E s \in TransportStatus : TransportWriteStatus(s)
    \/ \E s \in TransportStatus : TransportReadStatus(s)
    \/ \E k \in {0, 1}, half \in SampleHalves : TransportReadData(k, half)
    \/ shtc1_read_async_result
    \/ shtc1_read_lpm_sync
    \/ shtc1_read_hpm_sync
    \/ shtc1_read_lpm_async
    \/ shtc1_read_hpm_async
    \/ shtc1_reset
    \/ shtc1_probe

Spec == Init /\ [][Next]_vars

\* Measurement reads of a frame the sensor sent with valid checksums, of
\* which at most one byte, any of the six, arrived as any other value.
InitCrc ==
    /\ sent \in {SensorFrame(SamplePayloads[i], SamplePayloads[i + 1])
                   : i \in 1 .. NumFrames}
    /\ bus = [ws |-> STATUS_OK, rs |-> STATUS_OK, data |-> sent]
    /\ NoCall

NextCrc ==
    \/ bus.data = sent /\ \E pos \in 1 .. 6, v \in 0 .. 255 : Corrupt(pos, v)
    \/ shtc1_read_async_result
    \/ shtc1_read_lpm_sync
    \/ shtc1_read_hpm_sync

SpecCrc == InitCrc /\ [][NextCrc]_vars

\* The conversion, over every 16-bit code: the sensor sends S as the
\* temperature code and 65535 - S as the humidity code.
InitConv ==
    /\ sent \in {SensorFrame(Word(S), Word(65535 - S)) : S \in 0 .. 65535}
    /\ bus = [ws |-> STATUS_OK, rs |-> STATUS_OK, data |-> sent]
    /\ NoCall

NextConv ==
    \/ shtc1_read_async_result

SpecConv == InitConv /\ [][NextConv]_vars

----------------------------------------------------------------------------
(* Properties.                                                             *)

StatusCalls ==
    {"shtc1_read_hpm_sync", "shtc1_read_lpm_sync", "shtc1_read_hpm_async",
     "shtc1_read_lpm_async", "shtc1_read_async_result", "shtc1_reset"}

SyncCalls == {"shtc1_read_hpm_sync", "shtc1_read_lpm_sync"}

MeasureCalls == SyncCalls \cup {"shtc1_read_async_result"}

Kinds(tr) == [i \in DOMAIN tr |-> tr[i].kind]

\* The transport calls of a trace, and those of them that failed.
Transfers(tr) == {i \in DOMAIN tr : tr[i].kind \in {"write", "read"}}
Failed(tr) == {i \in Transfers(tr) : tr[i].status # STATUS_OK}

\* The last call read a frame and the read succeeded.
FrameRead ==
    /\ call \in MeasureCalls
    /\ trace # <<>>
    /\ trace[Len(trace)].kind = "read"
    /\ trace[Len(trace)].status = STATUS_OK

Frame == trace[Len(trace)].bytes

TempCrcOk == Frame[3] = Crc8Ref(<<Frame[1], Frame[2]>>)
HumCrcOk  == Frame[6] = Crc8Ref(<<Frame[4], Frame[5]>>)

\* C1: a measurement read that the bus delivered returns STATUS_OK exactly
\* when the third byte is the CRC-8 of the first two and the sixth byte is
\* the CRC-8 of the fourth and fifth; otherwise it returns
\* STATUS_ERR_BAD_DATA and stores nothing through temp and rh.  A frame as
\* the sensor sent it is accepted.
C1_CrcAcceptance ==
    FrameRead =>
        /\ (ret = STATUS_OK) <=> (TempCrcOk /\ HumCrcOk)
        /\ ~(TempCrcOk /\ HumCrcOk) => (ret = STATUS_ERR_BAD_DATA /\ ~stored)
        /\ Frame = sent => ret = STATUS_OK

\* A frame whose temperature half is valid and whose humidity half is not
\* was read and rejected.
C1_Witness ==
    /\ FrameRead
    /\ TempCrcOk
    /\ ~HumCrcOk
    /\ ret = STATUS_ERR_BAD_DATA

\* C2: in the six functions that return a status, a failed bus write or bus
\* read makes the function return that very status and store nothing, and
\* no call makes more than one bus write or more than one bus read.
C2_ErrorPropagated ==
    call \in StatusCalls =>
        /\ Cardinality({i \in DOMAIN trace : trace[i].kind = "write"}) <= 1
        /\ Cardinality({i \in DOMAIN trace : trace[i].kind = "read"}) <= 1
        /\ \A i \in Failed(trace) : ret = trace[i].status /\ ~stored

\* A synchronous read whose write succeeded and whose read timed out
\* returned the timeout.
C2_Witness ==
    /\ call = "shtc1_read_hpm_sync"
    /\ Len(trace) = 3
    /\ trace[1].status = STATUS_OK
    /\ trace[3].status = "STATUS_ERR_TIMEOUT"
    /\ ret = "STATUS_ERR_TIMEOUT"
    /\ ~stored

\* C3: in the six functions that return a status, nothing follows a failed
\* transport call: no bus write, no bus read, no delay.  The failing call is
\* the last thing the function does.
C3_NothingAfterFailure ==
    call \in StatusCalls => \A i \in Failed(trace) : i = Len(trace)

IdCrcOk(d) == d[3] = Crc8Ref(<<d[1], d[2]>>)
IdSignatureOk(d) == d[2] % 32 = 7

\* C4: shtc1_probe always writes, waits and reads 3 bytes, whatever the
\* write returned, and returns true exactly when the read succeeded, the
\* third byte is the CRC-8 of the first two and the low five bits of the
\* second byte are 0x07.
C4_ProbeResult ==
    call = "shtc1_probe" =>
        /\ Kinds(trace) = <<"write", "delay", "read">>
        /\ trace[3].len = 3
        /\ present <=> /\ trace[3].status = STATUS_OK
                       /\ IdCrcOk(trace[3].bytes)
                       /\ IdSignatureOk(trace[3].bytes)

\* A probe whose write failed found the sensor.
C4_Witness ==
    /\ call = "shtc1_probe"
    /\ trace[1].status # STATUS_OK
    /\ trace[3].status = STATUS_OK
    /\ present

\* C5 as claimed: a probe any step of which failed (the write, the read, the
\* CRC, the signature) returns false.
C5_AnyFailureNotPresent ==
    (/\ call = "shtc1_probe"
     /\ \/ Failed(trace) # {}
        \/ ~IdCrcOk(trace[3].bytes)
        \/ ~IdSignatureOk(trace[3].bytes))
    => ~present

\* C5 as amended: a probe whose read failed, whose CRC does not match or
\* whose signature is not 0x07 returns false; a failed write alone does not
\* make it return false.
C5_ReadFailureNotPresent ==
    (/\ call = "shtc1_probe"
     /\ \/ trace[Len(trace)].kind # "read"
        \/ trace[Len(trace)].status # STATUS_OK
        \/ ~IdCrcOk(trace[Len(trace)].bytes)
        \/ ~IdSignatureOk(trace[Len(trace)].bytes))
    => ~present

\* A probe read the signature 0x07 under a checksum that does not match and
\* returned false.
C5_Witness ==
    /\ call = "shtc1_probe"
    /\ trace[3].status = STATUS_OK
    /\ IdSignatureOk(trace[3].bytes)
    /\ ~IdCrcOk(trace[3].bytes)
    /\ ~present

\* C6: on one bus condition (read status and frame), the result call that
\* follows a successful start call gives the caller the same status and the
\* same stored values as a synchronous call whose write succeeded.
C6_ModeIndependence ==
    /\ (obs.hpm_sync # {} /\ obs.async # {}) => obs.hpm_sync = obs.async
    /\ (obs.lpm_sync # {} /\ obs.async # {}) => obs.lpm_sync = obs.async

\* Both protocols ran on a bus that delivered a frame with a bad checksum.
C6_Witness ==
    /\ obs.hpm_sync # {}
    /\ obs.lpm_sync # {}
    /\ obs.async # {}
    /\ \E o \in obs.async : o[1] = STATUS_ERR_BAD_DATA

\* The frame sent arrived with one of its four payload bytes changed and the
\* other five bytes as sent.
PayloadByteChanged ==
    \E pos \in {1, 2, 4, 5} :
        /\ Frame[pos] # sent[pos]
        /\ \A q \in (1 .. 6) \ {pos} : Frame[q] = sent[q]

\* C7: a frame with valid checksums of which one payload byte arrived as
\* another value is rejected with STATUS_ERR_BAD_DATA.
C7_ErrorDetected ==
    (FrameRead /\ PayloadByteChanged) => ret = STATUS_ERR_BAD_DATA

\* A frame with one bit of its humidity low byte flipped was rejected.
C7_Witness ==
    /\ FrameRead
    /\ Frame[5] = (IF sent[5] % 2 = 0 THEN sent[5] + 1 ELSE sent[5] - 1)
    /\ \A q \in {1, 2, 3, 4, 6} : Frame[q] = sent[q]
    /\ ret = STATUS_ERR_BAD_DATA

\* C8: for an accepted frame with codes S_T and S_RH, the call stores
\* ((21875 * S_T) >> 13) - 45000 and (12500 * S_RH) >> 13, both products
\* being at most 2^31 - 1; S_RH = 0x8000 gives 50000 and S_T = 0x6850 gives
\* 26307.
C8_Conversion ==
    (FrameRead /\ ret = STATUS_OK) =>
        LET S_T  == 256 * Frame[1] + Frame[2]
            S_RH == 256 * Frame[4] + Frame[5]
        IN  /\ stored
            /\ 21875 * S_T <= 2147483647
            /\ 12500 * S_RH <= 2147483647
            /\ temp = ((21875 * S_T) \div 8192) - 45000
            /\ rh = (12500 * S_RH) \div 8192
            /\ S_RH = 32768 => rh = 50000
            /\ S_T = 26704 => temp = 26307

\* The largest code, 0xFFFF, was converted as a temperature.
C8_Witness ==
    /\ FrameRead
    /\ ret = STATUS_OK
    /\ Frame[1] = 255
    /\ Frame[2] = 255
    /\ temp = 129997

\* The command each function sends.
CommandOf(c) ==
    CASE c = "shtc1_read_hpm_sync"  -> <<124, 162>>
      [] c = "shtc1_read_hpm_async" -> <<120, 102>>
      [] c = "shtc1_read_lpm_sync"  -> <<100, 88>>
      [] c = "shtc1_read_lpm_async" -> <<96, 156>>
      [] c = "shtc1_reset"          -> <<128, 93>>
      [] c = "shtc1_probe"          -> <<239, 200>>
      [] OTHER                      -> <<>>

\* C9: every bus transfer goes to address 0x70; every write carries the two
\* bytes of the calling function's command; the write ends with a stop
\* condition exactly when the function is shtc1_reset.
C9_WireFormat ==
    \A i \in Transfers(trace) :
        /\ trace[i].addr = 112
        /\ trace[i].kind = "write" =>
              /\ trace[i].len = 2
              /\ Len(trace[i].bytes) = 2
              /\ trace[i].bytes = CommandOf(call)
              /\ trace[i].stop <=> (call = "shtc1_reset")

\* A reset wrote its command with a stop condition.
C9_Witness ==
    /\ call = "shtc1_reset"
    /\ Len(trace) = 1
    /\ trace[1].kind = "write"
    /\ trace[1].bytes = <<128, 93>>
    /\ trace[1].stop

\* C10: a synchronous read whose write succeeded writes, then waits, then
\* reads 6 bytes, in that order; one whose write failed does not read; the
\* wait is 50 ms in both modes.  A start call only writes; the result call
\* only reads 6 bytes.
C10_Order ==
    /\ call \in SyncCalls =>
          /\ trace[1].kind = "write"
          /\ ~trace[1].stop
          /\ trace[1].status = STATUS_OK =>
                /\ Kinds(trace) = <<"write", "delay", "read">>
                /\ trace[3].len = 6
          /\ trace[1].status # STATUS_OK =>
                \A i \in DOMAIN trace : trace[i].kind # "read"
          /\ \A i \in DOMAIN trace : trace[i].kind = "delay" => trace[i].ms = 50
    /\ call \in {"shtc1_read_hpm_async", "shtc1_read_lpm_async"} =>
          Kinds(trace) = <<"write">>
    /\ call = "shtc1_read_async_result" =>
          /\ Kinds(trace) = <<"read">>
          /\ trace[1].len = 6

\* A low power synchronous read wrote, waited 50 ms and read.
C10_Witness ==
    /\ call = "shtc1_read_lpm_sync"
    /\ Kinds(trace) = <<"write", "delay", "read">>
    /\ trace[2].ms = 50
    /\ trace[3].status = STATUS_OK

====
